---------------------------- MODULE Spec2Model ----------------------------
(***************************************************************************)
(* Model of newspeaker.rss.resolve_links: the link resolution engine      *)
(* (Spec: resolve_links_from_jsonl and the _resolver batch it runs;        *)
(* FairSpec: the same under fair scheduling; SpecUrls: _looks_google and   *)
(* _maybe_add_locale on their own), of newspeaker.scriptgen.routing        *)
(* (SpecRouting: pick_backend_name), of newspeaker.scriptgen.generate      *)
(* (SpecEpisode: generate_episode) and of newspeaker.summarize.pipeline    *)
(* (SpecSummarize: run).                                                   *)
(*                                                                         *)
(* Strings are sequences of tokens (short TLA+ strings).  Every literal    *)
(* the code searches for ("google.com", "/rss/articles/", "url=", "&", "?")*)
(* is a whole number of tokens, so startswith / endswith / in / split on   *)
(* token sequences agree with the character-level operations of Python.    *)
(* Python's None and "" are both the empty sequence: every place the code  *)
(* reads an optional string it tests its truthiness, and the resolver      *)
(* never returns an empty string.                                          *)
(***************************************************************************)
EXTENDS Integers, Sequences, FiniteSets, TLC

\* ------------------------------------------------------------------ bounds

\* resolve_links_from_jsonl: the lines of the input file, the largest
\* concurrency, the latest reading of the clock
MaxBatch == 2

MaxConc == 2

MaxClock == 1

\* generate_episode: the lines of the input file, the largest max_items
MaxLines == 3

MaxItems == 2

\* summarize.pipeline.run: the lines of the input file, the largest max_workers
MaxRecords == 2

MaxWorkers == 2

\* --------------------------------------------------------- string helpers

None == <<>>

Truthy(s) == s # <<>>

StartsWith(s, p) == Len(s) >= Len(p) /\ SubSeq(s, 1, Len(p)) = p

EndsWith(s, p) == Len(s) >= Len(p) /\ SubSeq(s, Len(s) - Len(p) + 1, Len(s)) = p

\* str.find: the first index at which p occurs in s, 0 when it does not
Find(s, p) ==
  LET hits == {i \in 1..(Len(s) - Len(p) + 1) : SubSeq(s, i, i + Len(p) - 1) = p}
  IN  IF hits = {} THEN 0 ELSE CHOOSE i \in hits : \A j \in hits : i <= j

Contains(s, p) == Find(s, p) # 0

\* the first index of s holding one of the tokens of set, Len(s)+1 when none
FirstOf(s, set) ==
  LET hits == {i \in 1..Len(s) : s[i] \in set}
  IN  IF hits = {} THEN Len(s) + 1 ELSE CHOOSE i \in hits : \A j \in hits : i <= j

From(s, i) == SubSeq(s, i, Len(s))

Upto(s, i) == SubSeq(s, 1, i)

RECURSIVE Split(_, _)
\* str.split(sep) for a one-token separator
Split(s, sep) ==
  LET i == FirstOf(s, {sep})
  IN  IF i > Len(s) THEN <<s>> ELSE <<Upto(s, i - 1)>> \o Split(From(s, i + 1), sep)

\* str.split(sep, 1)
Split1(s, sep) ==
  LET i == FirstOf(s, {sep})
  IN  IF i > Len(s) THEN <<s>> ELSE <<Upto(s, i - 1), From(s, i + 1)>>

LowerTok(c) ==
  CASE c = "URL" -> "url"
    [] c = "Url" -> "url"
    [] c = "GOOGLE" -> "google"
    [] c = "COM" -> "com"
    [] c = "NEWS" -> "news"
    [] c = "AUTO" -> "auto"
    [] c = "Ollama" -> "ollama"
    [] OTHER -> c

\* str.lower
Lower(s) == [i \in 1..Len(s) |-> LowerTok(s[i])]

\* str.strip: leading and trailing blanks removed
RECURSIVE Strip(_)
Strip(s) ==
  IF s = <<>> THEN s
  ELSE IF Head(s) = " " THEN Strip(Tail(s))
  ELSE IF s[Len(s)] = " " THEN Strip(Upto(s, Len(s) - 1))
  ELSE s

UnquoteTok(c) ==
  CASE c = "%3A" -> ":"
    [] c = "%2F" -> "/"
    [] c = "%3F" -> "?"
    [] c = "%3D" -> "="
    [] c = "%26" -> "&"
    [] c = "+" -> " "
    [] OTHER -> c

\* urllib.parse.unquote after replace('+', ' '), as parse_qsl applies it
Unquote(s) == [i \in 1..Len(s) |-> UnquoteTok(s[i])]

\* --------------------------------------------------------- urllib.parse

Schemes == {"https", "http", "about"}

\* urllib.parse.urlparse: scheme ":" "//" netloc path "?" query "#" fragment
urlparse(u) ==
  LET hasScheme == Len(u) >= 2 /\ u[1] \in Schemes /\ u[2] = ":"
      rest1     == IF hasScheme THEN From(u, 3) ELSE u
      hasNet    == StartsWith(rest1, <<"/", "/">>)
      afterSl   == IF hasNet THEN From(rest1, 3) ELSE rest1
      netEnd    == FirstOf(afterSl, {"/", "?", "#"})
      rest2     == IF hasNet THEN From(afterSl, netEnd) ELSE rest1
      fragAt    == FirstOf(rest2, {"#"})
      rest3     == Upto(rest2, fragAt - 1)
      qAt       == FirstOf(rest3, {"?"})
  IN  [scheme   |-> IF hasScheme THEN <<u[1]>> ELSE <<>>,
       netloc   |-> IF hasNet THEN Upto(afterSl, netEnd - 1) ELSE <<>>,
       path     |-> Upto(rest3, qAt - 1),
       query    |-> From(rest3, qAt + 1),
       fragment |-> From(rest2, fragAt + 1)]

RECURSIVE QsPairs(_)
\* urllib.parse.parse_qsl with keep_blank_values=False: the (name, value)
\* pairs of the fields, blank values and fields without "=" dropped
QsPairs(fields) ==
  IF fields = <<>> THEN <<>>
  ELSE LET nv   == Split1(Head(fields), "=")
           rest == QsPairs(Tail(fields))
       IN  IF Len(nv) = 2 /\ nv[2] # <<>>
             THEN <<[name |-> Unquote(nv[1]), value |-> Unquote(nv[2])]>> \o rest
             ELSE rest

\* urllib.parse.parse_qs(qs).get(name, [None])[0]: the first value of name
QsFirst(qs, name) ==
  LET pairs == QsPairs(Split(qs, "&"))
      hits  == {i \in 1..Len(pairs) : pairs[i].name = name}
  IN  IF hits = {} THEN None
      ELSE pairs[CHOOSE i \in hits : \A j \in hits : i <= j].value

\* urllib.parse.urljoin for the targets the samples use: an absolute target
\* replaces the base, a root-relative one keeps the base's scheme and netloc
urljoin(base, target) ==
  LET b == urlparse(base)
      t == urlparse(target)
  IN  IF t.scheme # <<>> THEN target
      ELSE IF target = <<>> THEN base
      ELSE IF Head(target) = "/" THEN b.scheme \o <<":", "/", "/">> \o b.netloc \o target
      ELSE target

\* ------------------------------------------------------ resolve_links.py

G_HL == <<"es">>

G_GL == <<"ES">>

G_CEID == <<"ES:es">>

\* the text after "url=" taken as it stands, neither split at "&" nor unquoted
_try_decode_direct_raw(gn_link) ==
  LET q  == urlparse(gn_link).query
      at == Find(q, <<"url", "=">>)
  IN  IF at = 0 THEN None ELSE From(q, at + 2)

_try_decode_direct(gn_link) == QsFirst(urlparse(gn_link).query, <<"url">>)

_maybe_add_locale(link) ==
  LET u == urlparse(link)
  IN  IF EndsWith(u.netloc, <<"news", ".", "google", ".", "com">>)
         /\ Contains(u.path, <<"/", "rss", "/", "articles", "/">>)
        THEN LET sep == IF Truthy(u.query) THEN <<"&">> ELSE <<>>
             IN  link \o sep \o <<"&", "hl", "=">> \o G_HL
                      \o <<"&", "gl", "=">> \o G_GL
                      \o <<"&", "ceid", "=">> \o G_CEID
        ELSE link

GoogleDomains ==
  { <<"news", ".", "google", ".", "com">>,
    <<"consent", ".", "google", ".", "com">>,
    <<"google", ".", "com">> }

_looks_google(u) ==
  LET host == urlparse(u).netloc
  IN  \E d \in GoogleDomains : EndsWith(host, d)

\* the classifier check the code writes at every candidate: x and not _looks_google(x)
Final(x) == Truthy(x) /\ ~_looks_google(x)


\* regex http-equiv=refresh ... content="...url=TARGET" searched in the body.
\* A body is modelled by the directive it holds: None, or the matched TARGET.
_extract_meta_refresh(html, base) ==
  IF Truthy(html) THEN urljoin(base, Strip(html)) ELSE None

\* ----------------------------------------------------------- sample data

H == <<"https", ":", "/", "/">>

ElPaisA == H \o <<"elpais", ".", "com", "/", "a">>

ElMundoB == H \o <<"elmundo", ".", "es", "/", "b">>

ConsentPage == H \o <<"consent", ".", "google", ".", "com", "/", "m">>

GNewsX == H \o <<"news", ".", "google", ".", "com", "/", "x">>

\* an article-redirect link with no url parameter: the whole chain runs
GNewsArticle ==
  H \o <<"news", ".", "google", ".", "com", "/", "rss", "/", "articles", "/", "XYZ">>

\* the spec's scenario: the publisher URL is in the url parameter
DirectPub ==
  H \o <<"news", ".", "example", "/", "rss", "/", "articles", "/", "XYZ", "?", "url", "=">>
    \o ElPaisA

\* the same with the parameter percent-encoded, after another parameter
DirectEnc ==
  GNewsArticle \o <<"?", "oc", "=", "5", "&", "url", "=",
                    "https", "%3A", "%2F", "%2F", "elpais", ".", "com", "%2F", "a">>

\* the url parameter holds an aggregator URL
DirectGoogle == GNewsArticle \o <<"?", "url", "=">> \o GNewsX

Inputs == {GNewsArticle, DirectPub, DirectEnc, DirectGoogle}

\* what the servers may answer: response URLs, bodies, attributes, page URLs
RespUrls == {ConsentPage, ElMundoB}

Htmls == {None, ElMundoB, ConsentPage, <<" ", "/", "b">>}

AttrValues == {None, ConsentPage, ElMundoB}

MetaContents ==
  { None,
    <<"0", ";", "url", "=">> \o ElMundoB,
    <<"0", ";", "url", "=">> \o ConsentPage,
    <<"0", ";", "URL", "=">> \o ElMundoB,
    <<"0", ";", "url", "=", " ">>,
    <<"5">> }

PageUrls == {ConsentPage, ElMundoB}

\* a line of a JSONL file: blank, or the text of one JSON object
BlankLine == [kind |-> "blank"]

JsonLine(obj) == [kind |-> "json", obj |-> obj]

\* the input records: one per sample link, with other fields beside it, one
\* of them a resolved_url left by an earlier run
Records ==
  { [title |-> "a", link |-> GNewsArticle],
    [title |-> "b", link |-> DirectPub, resolved_url |-> ElMundoB],
    [title |-> "c", link |-> DirectEnc, summary |-> "s"],
    [link |-> DirectGoogle, title |-> "d"] }

Lines == {JsonLine(r) : r \in Records} \cup {BlankLine}

\* ------------------------------------------------------------------ state

VARIABLES
  files,         \* the file system: path |-> the file's lines
  items,         \* resolve_links_from_jsonl's items list
  jpc,           \* where resolve_links_from_jsonl is
  urls,          \* _resolver's argument: the input URL list
  concurrency,   \* _resolver's argument: the limit N
  bpc,           \* where _resolver is
  bexc,          \* the exception _resolver is raising, "" when none
  sem,           \* asyncio.Semaphore: the free permits
  task,          \* per worker task: its position, locals and calls (see NewTask)
  firstDone,     \* the task that returned first, 0 when none has
  results,       \* what _resolver returned
  jar,           \* the context's cookie jar
  ctxCloses,     \* context.close() calls
  browserCloses, \* browser.close() calls
  session,       \* what was acquired: "none", "browser" (launched), "context" (created)
  pw,            \* the async_playwright() manager: "off", "on", "stopped"
  pick,          \* a call of pick_backend_name: arguments, environment, locals
  episode,       \* a call of generate_episode: arguments, files, locals
  urlcall,       \* a call of one of resolve_links' URL functions: argument, result
  summ           \* a call of summarize.pipeline.run: records, futures, results

vars ==
  <<files, items, jpc, urls, concurrency, bpc, bexc, sem, task, firstDone, results, jar,
    ctxCloses, browserCloses, session, pw, pick, episode, urlcall, summ>>

Tasks == 1..Len(urls)

\* a worker before gather starts it.  Locals are reset to their initial value
\* once dead (attempt and ret when _page_attempt's caller moves on, respUrl
\* when the network strategy is left without a result, caught when the first
\* new_page call ends).
NewTask ==
  [pc      |-> "unborn", \* unborn, waiting, get, text, new_page, goto, canonical, og,
                         \* meta, settle, close, add_cookies, done, failed, cancelled
   attempt |-> 0,        \* which _page_attempt is running (0: none)
   respUrl |-> None,     \* final_url = resp.url
   caught  |-> "",       \* the exception the network strategy's except caught
   ret     |-> None,     \* the value _page_attempt returns through its finally
   exc     |-> "",       \* the exception being raised, or raised, "" when none
   page    |-> FALSE,    \* the task's Page is open
   pending |-> {},       \* the cookies list passed to add_cookies
   result  |-> None,     \* what worker returned
   nReq    |-> 0,        \* context.request.get calls
   nPages  |-> 0,        \* Pages context.new_page returned
   nCookie |-> 0]        \* context.add_cookies calls

RECURSIVE SeqsUpTo(_, _)
SeqsUpTo(S, n) ==
  IF n = 0 THEN {<<>>}
  ELSE LET shorter == SeqsUpTo(S, n - 1)
       IN  shorter \cup {Append(q, x) : q \in {r \in shorter : Len(r) = n - 1}, x \in S}

\* a file system with path p holding the lines c
File(p, c) == [q \in {p} |-> c]

NoFiles == [q \in {} |-> <<>>]

\* no call of pick_backend_name, of generate_episode
NoCall == [pc |-> "off"]

\* the lines an earlier run left in the output file
OldOutput == <<JsonLine([title |-> "old", link |-> ElPaisA, resolved_url |-> ElPaisA])>>

\* the file system after path p is written with the lines c
WriteFile(fs, p, c) ==
  [q \in DOMAIN fs \cup {p} |-> IF q = p THEN c ELSE fs[q]]

\* the state when resolve_links_from_jsonl(jsonl_in, concurrency) is called:
\* the input file is missing, or holds up to MaxBatch lines; the output file
\* does not exist, or (beside a missing or short input) holds an earlier output
Init ==
  /\ files \in {NoFiles} \cup {File("jsonl_in", c) : c \in SeqsUpTo(Lines, MaxBatch)}
               \cup {WriteFile(fs, "out_path", OldOutput)
                       : fs \in {NoFiles} \cup {File("jsonl_in", c) : c \in SeqsUpTo(Lines, 1)}}
  /\ items = <<>>
  /\ jpc = "read"
  /\ urls = <<>>
  /\ concurrency \in -1..MaxConc
  /\ bpc = "idle"
  /\ bexc = ""
  /\ sem = 0
  /\ task = <<>>
  /\ firstDone = 0
  /\ results = <<>>
  /\ jar = {}
  /\ ctxCloses = 0
  /\ browserCloses = 0
  /\ session = "none"
  /\ pw = "off"
  /\ pick = NoCall
  /\ episode = NoCall
  /\ urlcall = NoCall
  /\ summ = NoCall

\* ------------------------------------------------------------ cookie jar

ConsentDomains ==
  { <<".", "google", ".", "com">>,
    <<".", "consent", ".", "google", ".", "com">>,
    <<".", "news", ".", "google", ".", "com">> }

\* the cookies list _bypass_consent builds when time.time() reads t
ConsentCookies(t) ==
  LET future == t + 3600 * 24 * 365
  IN  {[name |-> "CONSENT", value |-> "YES+", domain |-> d, path |-> "/", expires |-> future]
         : d \in ConsentDomains}
      \cup
      {[name |-> "SOCS", value |-> "CAI", domain |-> d, path |-> "/", expires |-> future]
         : d \in ConsentDomains}

SameCookie(a, b) == a.name = b.name /\ a.domain = b.domain /\ a.path = b.path

\* a jar that keeps the older cookie beside the new one
AddCookiesKeepingOld(j, cookies) == j \cup cookies

\* BrowserContext.add_cookies: a cookie replaces the one of the same name, domain and path
AddCookies(j, cookies) ==
  {c \in j : \A n \in cookies : ~SameCookie(c, n)} \cup cookies

\* ------------------------------------------------------------ the worker

Ended == {"done", "failed", "cancelled"}

\* the tasks inside _resolve_one: admitted by the semaphore, not yet out
Active == {t \in Tasks : task[t].pc \notin {"unborn", "waiting"} \cup Ended}

\* the event loop runs the tasks while _resolver is between gather and its end
LoopRunning == bpc \in {"gather", "ctx_close", "browser_close", "pw_exit"}

\* a semaphore that admits without looking at the permits
CanAcquireAlways == TRUE

\* asyncio.Semaphore.acquire returns at once when a permit is free
CanAcquire == sem > 0

\* task t's record becomes r; nothing else of the tasks changes
Step(t, r) == task' = [task EXCEPT ![t] = r]

\* return v from _resolve_one
Returned(r, v) == [r EXCEPT !.pc = "done", !.result = v, !.attempt = 0, !.ret = None]

\* an exception e leaves _resolve_one
Raised(r, e) == [r EXCEPT !.pc = "failed", !.exc = e, !.attempt = 0, !.ret = None]

\* final = await _page_attempt(url), attempt k: await context.new_page()
CallPageAttempt(r, k) == [r EXCEPT !.pc = "new_page", !.attempt = k, !.respUrl = None]

\* except Exception: pass, with e caught; then final = await _page_attempt(url)
Except(r, e) == CallPageAttempt([r EXCEPT !.caught = e], 1)

\* return v / raise e inside _page_attempt's try: finally awaits page.close()
LeaveTry(r, v, e) == [r EXCEPT !.pc = "close", !.ret = v, !.exc = e]

\* a permit given back only when worker returns
ReleaseOnReturn(t) ==
  /\ sem' = IF task'[t].pc = "done" THEN sem + 1 ELSE sem
  /\ firstDone' = IF firstDone = 0 /\ task'[t].pc = "done" THEN t ELSE firstDone

\* worker returns or raises: async with sem releases the permit
Release(t) ==
  /\ sem' = IF task'[t].pc \in Ended THEN sem + 1 ELSE sem
  /\ firstDone' = IF firstDone = 0 /\ task'[t].pc = "done" THEN t ELSE firstDone

BatchFrame ==
  UNCHANGED <<pick, episode, urlcall, summ, files, items, jpc, urls, concurrency, bpc, bexc,
              results, ctxCloses, browserCloses, session, pw>>

\* _try_decode_direct(url) for each link a record may carry
DirectOf == [u \in Inputs |-> _try_decode_direct(u)]

\* async with sem; direct = _try_decode_direct(url); if direct: return direct;
\* else url = _maybe_add_locale(url) and the GET is issued
Admit(t) ==
  /\ LoopRunning
  /\ task[t].pc = "waiting"
  /\ CanAcquire
  /\ LET direct == DirectOf[urls[t]]
     IN  IF Truthy(direct)
           THEN /\ Step(t, Returned(task[t], direct))
                /\ firstDone' = IF firstDone = 0 THEN t ELSE firstDone
                /\ UNCHANGED sem
           ELSE /\ Step(t, [task[t] EXCEPT !.pc = "get", !.nReq = @ + 1])
                /\ sem' = sem - 1
                /\ UNCHANGED firstDone
  /\ UNCHANGED jar
  /\ BatchFrame

\* a GET whose final response URL is not returned: the body is read anyway
GetDoneReadsBody(t) ==
  /\ LoopRunning
  /\ task[t].pc = "get"
  /\ \/ Step(t, CallPageAttempt(task[t], 1))
     \/ \E final_url \in RespUrls :
          Step(t, [task[t] EXCEPT !.pc = "text", !.respUrl = final_url])
  /\ Release(t)
  /\ UNCHANGED jar
  /\ BatchFrame

\* await context.request.get(...) ends: an exception (caught), or a response
GetDone(t) ==
  /\ LoopRunning
  /\ task[t].pc = "get"
  /\ \/ Step(t, Except(task[t], "get"))
     \/ \E final_url \in RespUrls :
          LET r == [task[t] EXCEPT !.respUrl = final_url]
          IN  IF Final(final_url)
                THEN Step(t, Returned(r, final_url))
                ELSE Step(t, [r EXCEPT !.pc = "text"])
  /\ Release(t)
  /\ UNCHANGED jar
  /\ BatchFrame

\* a body read whose exception leaves _resolve_one
TextDoneRaises(t) ==
  /\ LoopRunning
  /\ task[t].pc = "text"
  /\ \/ Step(t, Raised(task[t], "text"))
     \/ \E html \in Htmls :
          LET url      == _maybe_add_locale(urls[t])
              base     == IF Truthy(task[t].respUrl) THEN task[t].respUrl ELSE url
              meta_url == _extract_meta_refresh(html, base)
          IN  IF Final(meta_url)
                THEN Step(t, Returned([task[t] EXCEPT !.respUrl = None], meta_url))
                ELSE Step(t, CallPageAttempt(task[t], 1))
  /\ Release(t)
  /\ UNCHANGED jar
  /\ BatchFrame

\* await resp.text() ends: an exception (caught), or a body
TextDone(t) ==
  /\ LoopRunning
  /\ task[t].pc = "text"
  /\ \/ Step(t, Except(task[t], "text"))
     \/ \E html \in Htmls :
          LET url      == _maybe_add_locale(urls[t])
              base     == IF Truthy(task[t].respUrl) THEN task[t].respUrl ELSE url
              meta_url == _extract_meta_refresh(html, base)
          IN  IF Final(meta_url)
                THEN Step(t, Returned([task[t] EXCEPT !.respUrl = None], meta_url))
                ELSE Step(t, CallPageAttempt(task[t], 1))
  /\ Release(t)
  /\ UNCHANGED jar
  /\ BatchFrame

\* await context.new_page() ends: a Page, or an exception (outside the try)
NewPageDone(t) ==
  /\ LoopRunning
  /\ task[t].pc = "new_page"
  /\ LET r == [task[t] EXCEPT !.caught = ""]
     IN  \/ Step(t, [r EXCEPT !.pc = "goto", !.page = TRUE, !.nPages = @ + 1])
         \/ Step(t, Raised(r, "new_page"))
  /\ Release(t)
  /\ UNCHANGED jar
  /\ BatchFrame

\* a page.goto whose exception skips the cleanup
GotoDoneNoFinally(t) ==
  /\ LoopRunning
  /\ task[t].pc = "goto"
  /\ \/ Step(t, [task[t] EXCEPT !.pc = "canonical"])
     \/ Step(t, Raised(task[t], "goto"))
  /\ Release(t)
  /\ UNCHANGED jar
  /\ BatchFrame

\* await page.goto(u, timeout=25000) ends: loaded, or a timeout / navigation
\* error, which no except catches: it leaves through finally
GotoDone(t) ==
  /\ LoopRunning
  /\ task[t].pc = "goto"
  /\ \/ Step(t, [task[t] EXCEPT !.pc = "canonical"])
     \/ Step(t, LeaveTry(task[t], None, "goto"))
  /\ Release(t)
  /\ UNCHANGED jar
  /\ BatchFrame

\* canonical = await _safe_get_attr(page, "head link[rel=canonical]", "href")
\* (None when the locator raised)
ProbeCanonical(t) ==
  /\ LoopRunning
  /\ task[t].pc = "canonical"
  /\ \E canonical \in AttrValues :
       IF Final(canonical)
         THEN Step(t, LeaveTry(task[t], canonical, ""))
         ELSE Step(t, [task[t] EXCEPT !.pc = "og"])
  /\ Release(t)
  /\ UNCHANGED jar
  /\ BatchFrame

\* og = await _safe_get_attr(page, "head meta[property='og:url']", "content")
ProbeOg(t) ==
  /\ LoopRunning
  /\ task[t].pc = "og"
  /\ \E og \in AttrValues :
       IF Final(og)
         THEN Step(t, LeaveTry(task[t], og, ""))
         ELSE Step(t, [task[t] EXCEPT !.pc = "meta"])
  /\ Release(t)
  /\ UNCHANGED jar
  /\ BatchFrame

\* meta = await _safe_get_attr(page, "head meta[http-equiv='refresh']", "content");
\* "url=" is looked for in meta.lower() and split off meta itself, so
\* meta.split("url=", 1)[1] raises IndexError when only the lowered text has it
ProbeMeta(t) ==
  /\ LoopRunning
  /\ task[t].pc = "meta"
  /\ \E meta \in MetaContents, page_url \in PageUrls :
       LET at     == Find(meta, <<"url", "=">>)
           target == Strip(From(meta, at + 2))
           joined == urljoin(page_url, target)
       IN  IF Truthy(meta) /\ Contains(Lower(meta), <<"url", "=">>)
             THEN IF at = 0
                    THEN Step(t, LeaveTry(task[t], None, "IndexError"))
                    ELSE IF Truthy(target) /\ ~_looks_google(joined)
                           THEN Step(t, LeaveTry(task[t], joined, ""))
                           ELSE Step(t, [task[t] EXCEPT !.pc = "settle"])
             ELSE Step(t, [task[t] EXCEPT !.pc = "settle"])
  /\ Release(t)
  /\ UNCHANGED jar
  /\ BatchFrame

\* await page.wait_for_load_state("networkidle", timeout=15000) ends (settled,
\* or its exception swallowed); fin = page.url
Settle(t) ==
  /\ LoopRunning
  /\ task[t].pc = "settle"
  /\ \E fin \in PageUrls :
       Step(t, LeaveTry(task[t], IF Final(fin) THEN fin ELSE None, ""))
  /\ Release(t)
  /\ UNCHANGED jar
  /\ BatchFrame

\* a caller that gives up after the first page attempt
ClosePageNoRetry(t) ==
  /\ LoopRunning
  /\ task[t].pc = "close"
  /\ LET r == [task[t] EXCEPT !.page = FALSE]
     IN  IF r.exc # ""
           THEN Step(t, Raised(r, r.exc))
           ELSE IF Final(r.ret)
             THEN Step(t, Returned(r, r.ret))
             ELSE IF FALSE
               THEN \E clock \in 0..MaxClock :
                      Step(t, [r EXCEPT !.pc = "add_cookies", !.ret = None,
                                        !.pending = ConsentCookies(clock),
                                        !.nCookie = @ + 1])
               ELSE Step(t, Returned(r, None))
  /\ Release(t)
  /\ UNCHANGED jar
  /\ BatchFrame

\* a caller that retries after the second page attempt too
ClosePageRetriesTwice(t) ==
  /\ LoopRunning
  /\ task[t].pc = "close"
  /\ LET r == [task[t] EXCEPT !.page = FALSE]
     IN  IF r.exc # ""
           THEN Step(t, Raised(r, r.exc))
           ELSE IF Final(r.ret)
             THEN Step(t, Returned(r, r.ret))
             ELSE IF r.nCookie < 2
               THEN \E clock \in 0..MaxClock :
                      Step(t, [r EXCEPT !.pc = "add_cookies", !.ret = None,
                                        !.pending = ConsentCookies(clock),
                                        !.nCookie = @ + 1])
               ELSE Step(t, Returned(r, None))
  /\ Release(t)
  /\ UNCHANGED jar
  /\ BatchFrame

\* a page attempt whose Page stays open when the attempt is retried
ClosePageLeavesOpen(t) ==
  /\ LoopRunning
  /\ task[t].pc = "close"
  /\ LET r == [task[t] EXCEPT !.page = (task[t].exc = "" /\ ~Final(task[t].ret)
                                         /\ task[t].attempt = 1)]
     IN  IF r.exc # ""
           THEN Step(t, Raised(r, r.exc))
           ELSE IF Final(r.ret)
             THEN Step(t, Returned(r, r.ret))
             ELSE IF r.attempt = 1
               THEN \E clock \in 0..MaxClock :
                      Step(t, [r EXCEPT !.pc = "add_cookies", !.ret = None,
                                        !.pending = ConsentCookies(clock),
                                        !.nCookie = @ + 1])
               ELSE Step(t, Returned(r, None))
  /\ Release(t)
  /\ UNCHANGED jar
  /\ BatchFrame

\* finally: await page.close() ends; then _page_attempt's caller goes on: the
\* exception propagates, or final is returned, or (after attempt 1)
\* _bypass_consent reads the clock, builds its cookies and awaits add_cookies,
\* or (after attempt 2) None is returned
ClosePage(t) ==
  /\ LoopRunning
  /\ task[t].pc = "close"
  /\ LET r == [task[t] EXCEPT !.page = FALSE]
     IN  IF r.exc # ""
           THEN Step(t, Raised(r, r.exc))
           ELSE IF Final(r.ret)
             THEN Step(t, Returned(r, r.ret))
             ELSE IF r.attempt = 1
               THEN \E clock \in 0..MaxClock :
                      Step(t, [r EXCEPT !.pc = "add_cookies", !.ret = None,
                                        !.pending = ConsentCookies(clock),
                                        !.nCookie = @ + 1])
               ELSE Step(t, Returned(r, None))
  /\ Release(t)
  /\ UNCHANGED jar
  /\ BatchFrame

\* await context.add_cookies(cookies) ends: applied, or an exception
AddCookiesDone(t) ==
  /\ LoopRunning
  /\ task[t].pc = "add_cookies"
  /\ \/ /\ jar' = AddCookies(jar, task[t].pending)
        /\ Step(t, CallPageAttempt([task[t] EXCEPT !.pending = {}], 2))
     \/ /\ Step(t, Raised([task[t] EXCEPT !.pending = {}], "add_cookies"))
        /\ UNCHANGED jar
  /\ Release(t)
  /\ BatchFrame

\* ---------------------------------------------------------- _resolver

TaskFrame == UNCHANGED <<task, firstDone, jar>>

JsonlFrame == UNCHANGED <<files, items, jpc, pick, episode, urlcall, summ>>

\* sem = asyncio.Semaphore(concurrency): ValueError for a negative value
MakeSemaphore ==
  /\ bpc = "semaphore"
  /\ IF concurrency < 0
       THEN bpc' = "raised" /\ bexc' = "ValueError" /\ UNCHANGED sem
       ELSE bpc' = "pw_start" /\ sem' = concurrency /\ UNCHANGED bexc
  /\ UNCHANGED <<urls, concurrency, results, ctxCloses, browserCloses, session, pw>>
  /\ TaskFrame
  /\ JsonlFrame

\* async with async_playwright() as p: the driver starts, or cannot
StartPlaywright ==
  /\ bpc = "pw_start"
  /\ \/ bpc' = "launch" /\ pw' = "on" /\ UNCHANGED bexc
     \/ bpc' = "raised" /\ bexc' = "acquire" /\ UNCHANGED pw
  /\ UNCHANGED <<urls, concurrency, sem, results, ctxCloses, browserCloses, session>>
  /\ TaskFrame
  /\ JsonlFrame

\* browser = await p.chromium.launch(headless=True)
Launch ==
  /\ bpc = "launch"
  /\ \/ bpc' = "new_context" /\ session' = "browser" /\ UNCHANGED bexc
     \/ bpc' = "pw_exit" /\ bexc' = "acquire" /\ UNCHANGED session
  /\ UNCHANGED <<urls, concurrency, sem, results, ctxCloses, browserCloses, pw>>
  /\ TaskFrame
  /\ JsonlFrame

\* context = await browser.new_context(...); then gather creates one task per URL
NewContext ==
  /\ bpc = "new_context"
  /\ \/ /\ bpc' = "gather"
        /\ session' = "context"
        /\ task' = [t \in Tasks |-> [task[t] EXCEPT !.pc = "waiting"]]
        /\ UNCHANGED bexc
     \/ bpc' = "pw_exit" /\ bexc' = "acquire" /\ UNCHANGED <<session, task>>
  /\ UNCHANGED <<urls, concurrency, sem, results, ctxCloses, browserCloses, pw,
                 firstDone, jar>>
  /\ JsonlFrame

\* results listed as they complete: the first task to return comes first
GatherResultsByCompletion ==
  [i \in Tasks |-> IF firstDone = 0 THEN task[i].result
                   ELSE IF i = 1 THEN task[firstDone].result
                   ELSE IF i <= firstDone THEN task[i - 1].result
                   ELSE task[i].result]

\* asyncio.gather's result: the tasks' results in the order of its arguments
GatherResults == [i \in Tasks |-> task[i].result]

\* results = await asyncio.gather(...) returns: every task returned
GatherReturns ==
  /\ bpc = "gather"
  /\ \A t \in Tasks : task[t].pc = "done"
  /\ results' = GatherResults
  /\ bpc' = "ctx_close"
  /\ UNCHANGED <<urls, concurrency, bexc, sem, ctxCloses, browserCloses, session, pw>>
  /\ TaskFrame
  /\ JsonlFrame

\* await asyncio.gather(...) raises the first exception of a task; the other
\* tasks are not cancelled and keep running
GatherRaises ==
  /\ bpc = "gather"
  /\ \E t \in Tasks : task[t].pc = "failed"
  /\ bpc' = "pw_exit"
  /\ bexc' = "task"
  /\ UNCHANGED <<urls, concurrency, sem, results, ctxCloses, browserCloses, session, pw>>
  /\ TaskFrame
  /\ JsonlFrame

\* await context.close()
CloseContext ==
  /\ bpc = "ctx_close"
  /\ ctxCloses' = ctxCloses + 1
  /\ bpc' = "browser_close"
  /\ UNCHANGED <<urls, concurrency, bexc, sem, results, browserCloses, session, pw>>
  /\ TaskFrame
  /\ JsonlFrame

\* await browser.close()
CloseBrowser ==
  /\ bpc = "browser_close"
  /\ browserCloses' = browserCloses + 1
  /\ bpc' = "pw_exit"
  /\ UNCHANGED <<urls, concurrency, bexc, sem, results, ctxCloses, session, pw>>
  /\ TaskFrame
  /\ JsonlFrame

\* a task that asyncio.run cancels at its await: its locals are gone, its Page
\* died with the driver
Cancelled(r) ==
  IF r.pc \in Ended \cup {"unborn"} THEN r
  ELSE [r EXCEPT !.pc = "cancelled", !.exc = "CancelledError", !.attempt = 0,
                 !.respUrl = None, !.caught = "", !.ret = None, !.pending = {},
                 !.page = FALSE]

\* the async with block ends: the driver is stopped and every Page dies with
\* it; then _resolver returns, or raises and asyncio.run cancels the tasks left
StopPlaywright ==
  /\ bpc = "pw_exit"
  /\ pw' = "stopped"
  /\ IF bexc = ""
       THEN /\ bpc' = "returned"
            /\ UNCHANGED <<task, sem>>
       ELSE /\ bpc' = "raised"
            /\ task' = [t \in Tasks |-> Cancelled(task[t])]
            /\ sem' = sem + Cardinality(Active)
  /\ UNCHANGED <<urls, concurrency, bexc, results, ctxCloses, browserCloses, session,
                 firstDone, jar>>
  /\ JsonlFrame

\* ------------------------------------------- resolve_links_from_jsonl

\* the records of a JSONL file: json.loads of every line that is not blank
RECURSIVE LoadJsonl(_)
LoadJsonl(c) ==
  IF c = <<>> THEN <<>>
  ELSE IF Head(c).kind = "json" THEN <<Head(c).obj>> \o LoadJsonl(Tail(c))
       ELSE LoadJsonl(Tail(c))

\* it.get("link", "")
GetLink(it) == IF "link" \in DOMAIN it THEN it.link ELSE None

\* a write that leaves an existing resolved_url as it is
SetResolvedIfAbsent(it, ru) ==
  IF "resolved_url" \in DOMAIN it THEN it
  ELSE [f \in DOMAIN it \cup {"resolved_url"} |-> IF f = "resolved_url" THEN ru ELSE it[f]]

\* it["resolved_url"] = ru
SetResolved(it, ru) ==
  [f \in DOMAIN it \cup {"resolved_url"} |-> IF f = "resolved_url" THEN ru ELSE it[f]]

\* the output file's lines: one json.dumps per pair of zip(items, resolved)
DumpResolved(its, resolved) ==
  [i \in 1..(IF Len(its) < Len(resolved) THEN Len(its) ELSE Len(resolved))
     |-> JsonLine(SetResolved(its[i], resolved[i]))]

\* if not jsonl_in.exists(): raise FileNotFoundError; else items and urls are
\* read and asyncio.run(_resolver(urls, concurrency)) is entered
ReadInput ==
  /\ jpc = "read"
  /\ IF "jsonl_in" \notin DOMAIN files
       THEN /\ jpc' = "raised"
            /\ UNCHANGED <<items, urls, task, bpc>>
       ELSE LET its == LoadJsonl(files["jsonl_in"])
            IN  /\ items' = its
                /\ urls' = [i \in 1..Len(its) |-> GetLink(its[i])]
                /\ task' = [i \in 1..Len(its) |-> NewTask]
                /\ bpc' = "semaphore"
                /\ jpc' = "run"
  /\ UNCHANGED <<files, concurrency, bexc, sem, firstDone, results, jar, ctxCloses,
                 browserCloses, session, pw, pick, episode, urlcall, summ>>

\* asyncio.run returned: the output file is opened with "w" and one line is
\* written per pair of zip(items, resolved), after it["resolved_url"] = ru
WriteOutput ==
  /\ jpc = "run"
  /\ bpc = "returned"
  /\ files' = WriteFile(files, "out_path", DumpResolved(items, results))
  /\ items' = LoadJsonl(DumpResolved(items, results))
  /\ jpc' = "returned"
  /\ UNCHANGED <<urls, concurrency, bpc, bexc, sem, results, ctxCloses, browserCloses,
                 session, pw, pick, episode, urlcall, summ>>
  /\ TaskFrame

\* a caller that has opened the output file for writing before the run
RunRaisesTruncates ==
  /\ jpc = "run"
  /\ bpc = "raised"
  /\ jpc' = "raised"
  /\ files' = WriteFile(files, "out_path", <<>>)
  /\ UNCHANGED <<items, urls, concurrency, bpc, bexc, sem, results, ctxCloses,
                 browserCloses, session, pw, pick, episode, urlcall, summ>>
  /\ TaskFrame

\* asyncio.run raised: the exception leaves resolve_links_from_jsonl
RunRaises ==
  /\ jpc = "run"
  /\ bpc = "raised"
  /\ jpc' = "raised"
  /\ UNCHANGED <<files, items, urls, concurrency, bpc, bexc, sem, results, ctxCloses,
                 browserCloses, session, pw, pick, episode, urlcall, summ>>
  /\ TaskFrame

Next ==
  \/ ReadInput
  \/ WriteOutput
  \/ RunRaises
  \/ MakeSemaphore
  \/ StartPlaywright
  \/ Launch
  \/ NewContext
  \/ GatherReturns
  \/ GatherRaises
  \/ CloseContext
  \/ CloseBrowser
  \/ StopPlaywright
  \/ \E t \in Tasks : Admit(t)
  \/ \E t \in Tasks : GetDone(t)
  \/ \E t \in Tasks : TextDone(t)
  \/ \E t \in Tasks : NewPageDone(t)
  \/ \E t \in Tasks : GotoDone(t)
  \/ \E t \in Tasks : ProbeCanonical(t)
  \/ \E t \in Tasks : ProbeOg(t)
  \/ \E t \in Tasks : ProbeMeta(t)
  \/ \E t \in Tasks : Settle(t)
  \/ \E t \in Tasks : ClosePage(t)
  \/ \E t \in Tasks : AddCookiesDone(t)

Spec == Init /\ [][Next]_vars

\* a step of resolve_links_from_jsonl or of _resolver itself
CallStep ==
  \/ ReadInput
  \/ WriteOutput
  \/ RunRaises
  \/ MakeSemaphore
  \/ StartPlaywright
  \/ Launch
  \/ NewContext
  \/ GatherReturns
  \/ GatherRaises
  \/ CloseContext
  \/ CloseBrowser
  \/ StopPlaywright

\* a step of task t: the operation it awaits completes, times out or raises
TaskStep(t) ==
  /\ t \in Tasks
  /\ \/ Admit(t)
     \/ GetDone(t)
     \/ TextDone(t)
     \/ NewPageDone(t)
     \/ GotoDone(t)
     \/ ProbeCanonical(t)
     \/ ProbeOg(t)
     \/ ProbeMeta(t)
     \/ Settle(t)
     \/ ClosePage(t)
     \/ AddCookiesDone(t)

\* The event loop under the progress assumptions: every awaited operation
\* completes or times out, and a coroutine that can run is eventually run,
\* the main coroutine and each task alike.
FairSpec ==
  /\ Init
  /\ [][Next]_vars
  /\ WF_vars(CallStep)
  /\ \A t \in 1..MaxBatch : WF_vars(TaskStep(t))

\* no call of resolve_links_from_jsonl
ResolverOff ==
  /\ files = NoFiles
  /\ items = <<>>
  /\ jpc = "off"
  /\ urls = <<>>
  /\ concurrency = 0
  /\ bpc = "idle"
  /\ bexc = ""
  /\ sem = 0
  /\ task = <<>>
  /\ firstDone = 0
  /\ results = <<>>
  /\ jar = {}
  /\ ctxCloses = 0
  /\ browserCloses = 0
  /\ session = "none"
  /\ pw = "off"

ResolverFrame ==
  UNCHANGED <<files, items, jpc, urls, concurrency, bpc, bexc, sem, task, firstDone,
              results, jar, ctxCloses, browserCloses, session, pw>>

\* --------------------------------------------------- scriptgen/routing

DEFAULT_OLLAMA_URL == <<"http", ":", "/", "/", "127.0.0.1", ":", "11434">>

DEFAULT_LMSTUDIO_URL == <<"http", ":", "/", "/", "127.0.0.1", ":", "1234", "/", "v1">>

ALLOWED_BACKENDS ==
  {<<"template">>, <<"ollama">>, <<"openai_compat">>, <<"openai">>, <<"auto">>}

\* a base_url of the caller's own server
CustomUrl == <<"http", ":", "/", "/", "localhost", ":", "8000", "/", "v1">>

\* the endpoints a probe may find listening
Endpoints == {<<"127.0.0.1", 1234>>, <<"127.0.0.1", 11434>>, <<"localhost", 8000>>}

\* the sample arguments and environment of pick_backend_name
Backends == {None, <<"auto">>, <<"AUTO">>, <<"bogus">>, <<"Ollama">>}

EnvBackends == {None, <<"template">>}

BaseUrls == {None, DEFAULT_LMSTUDIO_URL, CustomUrl}

\* int(): the port's digits as a number, 0 when there are none
PortNumber(tok) ==
  CASE tok = "1234" -> 1234
    [] tok = "11434" -> 11434
    [] tok = "8000" -> 8000
    [] OTHER -> 0

\* a netloc without its userinfo
DropUserinfo(netloc) == From(netloc, Find(netloc, <<"@">>) + 1)

\* the host of host:port, lowered, "" (None) when there is none
HostOf(hostp) ==
  IF hostp = <<>> \/ Head(hostp) = ":" THEN "" ELSE LowerTok(Head(hostp))

\* the number after the host's colon, 0 (None) when there is none
PortOf(hostp, colon) ==
  IF colon = 0 \/ colon = Len(hostp) THEN 0 ELSE PortNumber(hostp[colon + 1])

\* urlparse(u).hostname
Hostname(u) == HostOf(DropUserinfo(urlparse(u).netloc))

\* urlparse(u).port
Port(u) ==
  PortOf(DropUserinfo(urlparse(u).netloc),
         Find(DropUserinfo(urlparse(u).netloc), <<":">>))

_host_port_from_url(base_url) == <<Hostname(base_url), Port(base_url)>>

\* socket.create_connection((host, port)) succeeds
_is_port_open(listening, host, port) == <<host, port>> \in listening

\* h and p and _is_port_open(h, p)
ProbeHostPort(listening, hp) ==
  hp[1] # "" /\ hp[2] # 0 /\ _is_port_open(listening, hp[1], hp[2])

\* h, p = _host_port_from_url(u); h and p and _is_port_open(h, p)
ProbeUrl(listening, u) == ProbeHostPort(listening, _host_port_from_url(u))

\* out of detect_local_endpoints: base_url's port is probed when one is given,
\* the LM Studio default only when none is; the Ollama default always
detect_local_endpoints(listening, explicit_base_url) ==
  [lmstudio_open |-> IF Truthy(explicit_base_url)
                       THEN ProbeUrl(listening, explicit_base_url)
                       ELSE ProbeUrl(listening, DEFAULT_LMSTUDIO_URL),
   ollama_open   |-> ProbeUrl(listening, DEFAULT_OLLAMA_URL)]

\* (backend or os.getenv("NEWSPEAKER_BACKEND") or "auto").lower(), "auto" when
\* not an allowed name
Chosen(backend, environ) ==
  LET c == Lower(IF Truthy(backend) THEN backend
                 ELSE IF Truthy(environ) THEN environ ELSE <<"auto">>)
  IN  IF c \in ALLOWED_BACKENDS THEN c ELSE <<"auto">>

\* the state when pick_backend_name(backend, base_url) is called
InitRouting ==
  /\ ResolverOff
  /\ episode = NoCall
  /\ urlcall = NoCall
  /\ summ = NoCall
  /\ pick \in {[pc |-> "call", backend |-> b, base_url |-> u, environ |-> e,
                listening |-> l, probe |-> <<>>, ret |-> None]
                 : b \in Backends, u \in BaseUrls, e \in EnvBackends,
                   l \in SUBSET Endpoints}

\* chosen is computed; a name other than auto is returned as it is
PickChosen ==
  /\ pick.pc = "call"
  /\ LET chosen == Chosen(pick.backend, pick.environ)
     IN  IF chosen # <<"auto">>
           THEN pick' = [pick EXCEPT !.pc = "returned", !.ret = chosen]
           ELSE pick' = [pick EXCEPT !.pc = "detect"]
  /\ ResolverFrame
  /\ UNCHANGED <<episode, urlcall, summ>>

\* probe = detect_local_endpoints(base_url)
DetectLocalEndpoints ==
  /\ pick.pc = "detect"
  /\ pick' = [pick EXCEPT !.pc = "decide",
                          !.probe = detect_local_endpoints(pick.listening, pick.base_url)]
  /\ ResolverFrame
  /\ UNCHANGED <<episode, urlcall, summ>>

\* the returns of auto mode
PickAuto ==
  /\ pick.pc = "decide"
  /\ pick' = [pick EXCEPT
       !.pc = "returned",
       !.ret = IF Truthy(pick.base_url) /\ ProbeUrl(pick.listening, pick.base_url)
                 THEN <<"openai_compat">>
               ELSE IF pick.probe.lmstudio_open THEN <<"openai_compat">>
               ELSE IF pick.probe.ollama_open THEN <<"ollama">>
               ELSE <<"template">>]
  /\ ResolverFrame
  /\ UNCHANGED <<episode, urlcall, summ>>

NextRouting ==
  \/ PickChosen
  \/ DetectLocalEndpoints
  \/ PickAuto

SpecRouting == InitRouting /\ [][NextRouting]_vars

\* -------------------------------------------------- scriptgen/generate

\* item.get(k): None when the key is missing
Get(item, k) == IF k \in DOMAIN item THEN item[k] ELSE None

\* the summarized records: complete with and without text, with a null
\* resolved_url, with a summary of blanks
SummarizedItems ==
  { [title |-> <<"a">>, resolved_url |-> ElPaisA, summary |-> <<"s1">>, text |-> <<"t">>],
    [title |-> <<"b">>, resolved_url |-> ElMundoB, summary |-> <<" ", "s2">>],
    [title |-> <<"c">>, resolved_url |-> None, summary |-> <<"s3">>],
    [title |-> <<"d">>, resolved_url |-> ElPaisA, summary |-> <<" ">>] }

SummarizedLines == {JsonLine(it) : it \in SummarizedItems} \cup {BlankLine}

\* a line an earlier run left in the output file
OldLine == JsonLine([title |-> <<"old">>])

\* what backend.generate(..., strict=False) may return: a text, or an error
GenerationResults ==
  { [text |-> <<"block">>, error |-> None],
    [text |-> None, error |-> <<"backend_failed">>],
    [text |-> None, error |-> None] }

\* _iter_jsonl: json.loads of every line that is not blank after strip()
RECURSIVE _iter_jsonl(_)
_iter_jsonl(c) ==
  IF c = <<>> THEN <<>>
  ELSE IF Head(c).kind = "json" THEN <<Head(c).obj>> \o _iter_jsonl(Tail(c))
       ELSE _iter_jsonl(Tail(c))

\* if max_items and max_items > 0: items = items[:max_items]
Truncate(its, max_items) ==
  IF max_items > 0 /\ max_items < Len(its) THEN Upto(its, max_items) ELSE its

\* the loop's copy of item idx (0-based) of total, with its position flags
Positioned(it, idx, total) ==
  [k \in DOMAIN it \cup {"_segment_index", "_is_first", "_is_last", "_add_transition"} |->
     CASE k = "_segment_index" -> idx
       [] k = "_is_first" -> idx = 0
       [] k = "_is_last" -> idx = total - 1
       [] k = "_add_transition" -> total > 1 /\ idx < total - 1
       [] OTHER -> it[k]]

\* an _empty_result that records no reason
_empty_result_silent(item, reason) ==
  [title         |-> Get(item, "title"),
   resolved_url  |-> Get(item, "resolved_url"),
   summary       |-> Strip(Get(item, "summary")),
   script        |-> None,
   words         |-> 0,
   segment_index |-> item["_segment_index"],
   citations     |-> <<>>,
   errors        |-> None]

_empty_result(item, reason) ==
  [title         |-> Get(item, "title"),
   resolved_url  |-> Get(item, "resolved_url"),
   summary       |-> Strip(Get(item, "summary")),
   script        |-> None,
   words         |-> 0,
   segment_index |-> item["_segment_index"],
   citations     |-> <<>>,
   errors        |-> reason]

\* error messages joined with " | "
JoinErrors(a, b) ==
  IF ~Truthy(a) THEN b ELSE IF ~Truthy(b) THEN a ELSE a \o <<" ", "|", " ">> \o b

\* generate_script_for_item, with result what the picked backend returned and
\* fb what the template backend returns when asked
generate_script_for_item(item, result, fb) ==
  LET resolved_url == Get(item, "resolved_url")
      summary      == Strip(Get(item, "summary"))
      text_opt     == Strip(Get(item, "text"))
      failed       == Truthy(result.error) \/ ~Truthy(result.text)
      script_block == IF failed THEN fb.text ELSE result.text
      errors       == IF failed
                        THEN JoinErrors(IF Truthy(result.error) THEN result.error
                                        ELSE <<"llm_empty">>, fb.error)
                        ELSE None
      script       == (IF item["_is_first"] THEN <<"intro">> ELSE <<>>)
                      \o Strip(script_block)
                      \o (IF item["_add_transition"] THEN <<"transition">> ELSE <<>>)
                      \o (IF item["_is_last"] THEN <<"outro">> ELSE <<>>)
      warn         == <<"no full text available">>
  IN  IF ~Truthy(resolved_url) \/ ~Truthy(summary)
        THEN _empty_result(item, <<"missing resolved_url or summary">>)
        ELSE [title         |-> Get(item, "title"),
              resolved_url  |-> resolved_url,
              summary       |-> summary,
              script        |-> script,
              words         |-> Len(script),
              segment_index |-> item["_segment_index"],
              citations     |-> <<resolved_url>>,
              errors        |-> IF Truthy(text_opt) THEN errors ELSE JoinErrors(errors, warn)]

\* the state when generate_episode(input_path, output_path, max_items) is
\* called: its input file, and what the output file already holds
InitEpisode ==
  /\ ResolverOff
  /\ pick = NoCall
  /\ urlcall = NoCall
  /\ summ = NoCall
  /\ episode \in {[pc |-> "call", input |-> c, max_items |-> m, old |-> o, output |-> o,
                   its |-> <<>>, idx |-> 0]
                    : c \in SeqsUpTo(SummarizedLines, MaxLines), m \in -1..MaxItems,
                      o \in {<<>>, <<OldLine>>}}

\* items = list(_iter_jsonl(in_path)), cut to max_items
LoadItems ==
  /\ episode.pc = "call"
  /\ episode' = [episode EXCEPT
       !.pc = "loop",
       !.its = Truncate(_iter_jsonl(episode.input), episode.max_items)]
  /\ ResolverFrame
  /\ UNCHANGED <<pick, urlcall, summ>>

\* one turn of the loop: the item is scripted (the backends answering as they
\* may) and its line is appended to the output file
ScriptItem ==
  /\ episode.pc = "loop"
  /\ episode.idx < Len(episode.its)
  /\ \E result \in GenerationResults, fb \in GenerationResults :
       LET it      == Positioned(episode.its[episode.idx + 1], episode.idx, Len(episode.its))
           out_obj == generate_script_for_item(it, result, fb)
       IN  episode' = [episode EXCEPT !.idx = @ + 1,
                                      !.output = Append(@, JsonLine(out_obj))]
  /\ ResolverFrame
  /\ UNCHANGED <<pick, urlcall, summ>>

\* the loop ends and generate_episode returns
EpisodeReturns ==
  /\ episode.pc = "loop"
  /\ episode.idx = Len(episode.its)
  /\ episode' = [episode EXCEPT !.pc = "returned", !.its = <<>>, !.idx = 0]
  /\ ResolverFrame
  /\ UNCHANGED <<pick, urlcall, summ>>

NextEpisode ==
  \/ LoadItems
  \/ ScriptItem
  \/ EpisodeReturns

SpecEpisode == InitEpisode /\ [][NextEpisode]_vars

\* ------------------------------------ resolve_links: the URL functions

\* the parts the sample URLs are put together from
UrlSchemes == {<<"https">>, <<"http">>}

UrlUserinfos == {<<>>, <<"user", "@">>}

UrlHosts ==
  { <<"news", ".", "google", ".", "com">>,
    <<"consent", ".", "google", ".", "com">>,
    <<"google", ".", "com">>,
    <<"www", ".", "google", ".", "com">>,
    <<"NEWS", ".", "GOOGLE", ".", "COM">>,
    <<"not", "google", ".", "com">>,
    <<"elpais", ".", "com">>,
    <<"google", ".", "com", ".", "elpais", ".", "com">> }

UrlPorts == {<<>>, <<":", "443">>}

UrlPaths == {<<>>, <<"/", "a">>, <<"/", "rss", "/", "articles", "/", "XYZ">>}

UrlQueries == {<<>>, <<"?", "oc", "=", "5">>}

SampleUrls ==
  { s \o <<":", "/", "/">> \o ui \o h \o p \o pa \o q
      : s \in UrlSchemes, ui \in UrlUserinfos, h \in UrlHosts, p \in UrlPorts,
        pa \in UrlPaths, q \in UrlQueries }

\* the state when _looks_google(u) or _maybe_add_locale(link) is called
InitUrls ==
  /\ ResolverOff
  /\ pick = NoCall
  /\ episode = NoCall
  /\ summ = NoCall
  /\ urlcall \in {[pc |-> "call", fn |-> f, arg |-> u, google |-> FALSE, out |-> <<>>]
                   : f \in {"_looks_google", "_maybe_add_locale"}, u \in SampleUrls}

\* _looks_google(u) returns
LooksGoogleReturns ==
  /\ urlcall.pc = "call"
  /\ urlcall.fn = "_looks_google"
  /\ urlcall' = [urlcall EXCEPT !.pc = "returned", !.google = _looks_google(urlcall.arg)]
  /\ ResolverFrame
  /\ UNCHANGED <<pick, episode, summ>>

\* _maybe_add_locale(link) returns
MaybeAddLocaleReturns ==
  /\ urlcall.pc = "call"
  /\ urlcall.fn = "_maybe_add_locale"
  /\ urlcall' = [urlcall EXCEPT !.pc = "returned", !.out = _maybe_add_locale(urlcall.arg)]
  /\ ResolverFrame
  /\ UNCHANGED <<pick, episode, summ>>

NextUrls ==
  \/ LooksGoogleReturns
  \/ MaybeAddLocaleReturns

SpecUrls == InitUrls /\ [][NextUrls]_vars

\* --------------------------------------------------- summarize/pipeline

\* rec[k] = v
SetField(rec, k, v) == [f \in DOMAIN rec \cup {k} |-> IF f = k THEN v ELSE rec[f]]

\* r.get("resolved_url") or r.get("link")
UrlKey(r) ==
  IF Truthy(Get(r, "resolved_url")) THEN r.resolved_url ELSE Get(r, "link")

\* what extract_article_text may return, by its number of words and of
\* characters: None (nothing scraped), a short text, a text of few long words,
\* a long text
NoText == [id |-> "none", words |-> 0, chars |-> 0]

Texts ==
  { NoText,
    [id |-> "short", words |-> 12, chars |-> 70],
    [id |-> "wordy", words |-> 60, chars |-> 900],
    [id |-> "long", words |-> 400, chars |-> 2500] }

\* text[:n]
Prefix(text, n) == [text EXCEPT !.id = "prefix", !.chars = n]

\* clean_text(textrank_summary(text, max_sentences)): the summary of a text
textrank_summary(text, max_sentences) ==
  [id |-> "textrank", of |-> text.id, sentences |-> max_sentences]

\* _process_item(item, max_sentences, model_name), text being what
\* extract_article_text(url) returns
_process_item(item, text, max_sentences, model_name) ==
  IF ~Truthy(UrlKey(item)) THEN SetField(item, "scrape_error", "missing_url")
  ELSE IF text.chars = 0 THEN SetField(item, "scrape_error", "scrape_failed")
  ELSE IF text.words < 80
    THEN SetField(SetField(SetField(item, "text", text),
                           "summary", IF text.chars < 800 THEN text ELSE Prefix(text, 800)),
                  "summary_model", "pass_through")
    ELSE SetField(SetField(SetField(item, "text", text),
                           "summary", textrank_summary(text, max_sentences)),
                  "summary_model", model_name)

\* the input records: two with the same resolved_url, one with a link only,
\* one with a null resolved_url, two with neither
SummaryRecords ==
  { [title |-> "a", link |-> GNewsArticle, resolved_url |-> ElPaisA],
    [title |-> "b", link |-> GNewsX, resolved_url |-> ElPaisA],
    [title |-> "c", link |-> ElMundoB],
    [title |-> "d", link |-> GNewsX, resolved_url |-> None],
    [title |-> "e"],
    [title |-> "f", resolved_url |-> None] }

SummaryLines == {JsonLine(r) : r \in SummaryRecords} \cup {BlankLine}

\* idx_by_url = {key(r): r for r in results}: a later result replaces an
\* earlier one under the same key
IdxByUrl(rs) ==
  [k \in {UrlKey(rs[i]) : i \in 1..Len(rs)} |->
     rs[CHOOSE i \in 1..Len(rs) :
          /\ UrlKey(rs[i]) = k
          /\ \A j \in 1..Len(rs) : UrlKey(rs[j]) = k => j <= i]]

\* ordered: idx_by_url.get(key(it), it) for each it of items
Ordered(its, rs) ==
  [i \in 1..Len(its) |->
     IF UrlKey(its[i]) \in DOMAIN IdxByUrl(rs)
       THEN IdxByUrl(rs)[UrlKey(its[i])]
       ELSE its[i]]

\* the state when run(input_jsonl, output_jsonl, max_workers) is called
InitSummarize ==
  /\ ResolverOff
  /\ pick = NoCall
  /\ episode = NoCall
  /\ urlcall = NoCall
  /\ summ \in {[pc |-> "call", input |-> c, max_workers |-> w, max_sentences |-> 5,
                model_name |-> "sumy_textrank", its |-> <<>>, started |-> 0,
                running |-> {}, results |-> <<>>, written |-> FALSE, output |-> <<>>]
                 : c \in SeqsUpTo(SummaryLines, MaxRecords), w \in 0..MaxWorkers}

SummarizeFrame ==
  /\ ResolverFrame
  /\ UNCHANGED <<pick, episode, urlcall>>

\* items = list(read_jsonl(input_jsonl)); ThreadPoolExecutor(max_workers)
\* raises ValueError for max_workers <= 0; every item is submitted
SubmitItems ==
  /\ summ.pc = "call"
  /\ summ' = IF summ.max_workers <= 0
               THEN [summ EXCEPT !.pc = "raised", !.its = LoadJsonl(summ.input)]
               ELSE [summ EXCEPT !.pc = "pool", !.its = LoadJsonl(summ.input)]
  /\ SummarizeFrame

\* a free worker thread takes the next submitted item
StartItem ==
  /\ summ.pc = "pool"
  /\ summ.started < Len(summ.its)
  /\ Cardinality(summ.running) < summ.max_workers
  /\ summ' = [summ EXCEPT !.started = @ + 1, !.running = @ \cup {summ.started + 1}]
  /\ SummarizeFrame

\* _process_item ends for item i; as_completed yields its future and
\* results.append(fut.result())
FinishItem(i) ==
  /\ summ.pc = "pool"
  /\ i \in summ.running
  /\ \E text \in Texts :
       summ' = [summ EXCEPT
         !.running = @ \ {i},
         !.results = Append(@, _process_item(summ.its[i], text, summ.max_sentences,
                                             summ.model_name))]
  /\ SummarizeFrame

\* every future is done: idx_by_url, ordered, write_jsonl(output_jsonl, ordered)
WriteOrdered ==
  /\ summ.pc = "pool"
  /\ summ.started = Len(summ.its)
  /\ summ.running = {}
  /\ summ' = [summ EXCEPT !.pc = "returned", !.written = TRUE,
                          !.output = Ordered(summ.its, summ.results)]
  /\ SummarizeFrame

NextSummarize ==
  \/ SubmitItems
  \/ StartItem
  \/ \E i \in 1..MaxRecords : FinishItem(i)
  \/ WriteOrdered

SpecSummarize == InitSummarize /\ [][NextSummarize]_vars

\* ----------------------------------------------------------------- claims

BatchEnded == bpc \in {"returned", "raised"}

\* what _resolve_one may return for each sample input, written out
ExpectedResults(u) ==
  CASE u = DirectPub -> {ElPaisA}
    [] u = DirectEnc -> {ElPaisA}
    [] u = DirectGoogle -> {GNewsX}
    [] OTHER -> {None, ElMundoB}

\* C1: when _resolver returns, the list has one entry per input URL and entry
\* i is what the task started for input URL i returned, whatever the order in
\* which the tasks finished; there is one task per input URL.
C1_ResultsInInputOrder ==
  bpc = "returned" =>
    /\ DOMAIN task = DOMAIN urls
    /\ Len(results) = Len(urls)
    /\ \A i \in 1..Len(urls) :
         /\ task[i].pc = "done"
         /\ results[i] = task[i].result
         /\ results[i] \in ExpectedResults(urls[i])

\* C1 witness: a batch returned in which the second task finished first and
\* the two results differ
C1_Witness ==
  /\ bpc = "returned"
  /\ Len(urls) = 2
  /\ firstDone = 2
  /\ results[1] # results[2]

AdmitOnlyBelowLimit ==
  \A t \in Tasks :
    (task[t].pc = "waiting" /\ task'[t].pc \notin {"waiting", "cancelled"})
      => Cardinality(Active) < concurrency

\* C2: with a limit N >= 1, at most N tasks are inside _resolve_one in every
\* reachable state, and a task leaves the semaphore's queue only in a step
\* that starts with fewer than N tasks active.
C2_AtMostNActive ==
  /\ [](concurrency >= 1 => Cardinality(Active) <= concurrency)
  /\ [][AdmitOnlyBelowLimit]_vars

\* C2 witness: the limit is reached while another task waits for a permit
C2_Witness ==
  /\ concurrency = 1
  /\ Cardinality(Active) = 1
  /\ \E t \in Tasks : task[t].pc = "waiting"

\* C3: a non-null value returned by _resolve_one is never a URL that
\* _looks_google rejects, whichever candidate source it came from.
C3_NeverReturnsGoogle ==
  \A t \in Tasks :
    (task[t].pc = "done" /\ Truthy(task[t].result)) => ~_looks_google(task[t].result)

\* C4: a URL whose url parameter holds a publisher URL resolves to exactly the
\* decoded parameter, and its task issues no request, opens no Page and adds
\* no cookies.
C4_DirectDecodeShortCircuits ==
  \A t \in Tasks :
    urls[t] \in {DirectPub, DirectEnc} =>
      /\ task[t].nReq = 0
      /\ task[t].nPages = 0
      /\ task[t].nCookie = 0
      /\ task[t].pc \in {"unborn", "waiting", "done", "cancelled"}
      /\ task[t].pc = "done" => task[t].result = ElPaisA

\* C4 witness: the percent-encoded and the plain parameter both resolved
C4_Witness ==
  /\ \E t \in Tasks : urls[t] = DirectEnc /\ task[t].pc = "done" /\ task[t].result = ElPaisA
  /\ \E t \in Tasks : urls[t] = DirectPub /\ task[t].pc = "done" /\ task[t].result = ElPaisA

\* C5: a navigation timeout is recovered inside its task: the task does not
\* fail with it and the batch call does not raise.
C5_TimeoutRecovered ==
  \A t \in Tasks : task[t].exc = "goto" => bpc # "raised"

\* C6: the batch call raises only when acquiring the browser resource failed
\* (driver start, launch, new_context, new_page); every other failure inside
\* a task gives a null result.  (A negative limit, refused before anything is
\* acquired, is left aside.)
C6_RaisesOnlyOnAcquire ==
  (bpc = "raised" /\ bexc # "ValueError") =>
    \/ bexc = "acquire"
    \/ \A t \in Tasks : task[t].pc = "failed" => task[t].exc = "new_page"

\* C7: when the GET ends on a response URL the classifier accepts, the task
\* returns that URL, and has created no Page and added no cookies.
C7_RedirectShortCircuits ==
  \A t \in Tasks :
    (Truthy(task[t].respUrl) /\ ~_looks_google(task[t].respUrl)) =>
      /\ task[t].pc = "done"
      /\ task[t].result = task[t].respUrl
      /\ task[t].nPages = 0
      /\ task[t].nCookie = 0

\* C7 witness: a task returned the URL its GET was redirected to
C7_Witness ==
  \E t \in Tasks :
    /\ task[t].respUrl = ElMundoB
    /\ task[t].pc = "done"
    /\ task[t].result = ElMundoB
    /\ task[t].nReq = 1

\* C8: a task that has returned, failed or been cancelled holds no open Page.
C8_PageClosedOnExit ==
  \A t \in Tasks : task[t].pc \in Ended => ~task[t].page

\* C8 witness: one task failed on a navigation timeout after opening a Page,
\* another returned after two page attempts
C8_Witness ==
  /\ \E t \in Tasks : task[t].pc = "failed" /\ task[t].exc = "goto" /\ task[t].nPages >= 1
  /\ \E t \in Tasks : task[t].pc = "done" /\ task[t].nPages = 2

\* C9: when the batch call has ended and the session had been created, the
\* context and the browser have each been closed exactly once.
C9_SessionClosedOnce ==
  (BatchEnded /\ session = "context") => (ctxCloses = 1 /\ browserCloses = 1)

ConsentNameValues == {<<"CONSENT", "YES+">>, <<"SOCS", "CAI">>}

C11_OutputMirrorsInput ==
  jpc = "returned" =>
    LET inp == LoadJsonl(files["jsonl_in"])
        out == files["out_path"]
    IN  /\ Len(out) = Len(inp)
        /\ \A i \in 1..Len(inp) :
             /\ out[i].kind = "json"
             /\ DOMAIN out[i].obj = DOMAIN inp[i] \cup {"resolved_url"}
             /\ \A f \in DOMAIN inp[i] \ {"resolved_url"} : out[i].obj[f] = inp[i][f]
             /\ urls[i] = inp[i].link
             /\ out[i].obj.resolved_url = task[i].result
             /\ out[i].obj.resolved_url \in ExpectedResults(inp[i].link)

\* C11 witness: two records were written, the first with a new value over the
\* resolved_url it came with, the second with a null resolved_url
C11_Witness ==
  /\ jpc = "returned"
  /\ Len(files["out_path"]) = 2
  /\ LET first == LoadJsonl(files["jsonl_in"])[1]
     IN  /\ "resolved_url" \in DOMAIN first
         /\ first.resolved_url # files["out_path"][1].obj.resolved_url
  /\ files["out_path"][2].obj.resolved_url = None

\* the semaphore exists: asyncio.Semaphore(concurrency) returned
SemaphoreMade == bpc \notin {"idle", "semaphore"} /\ bexc # "ValueError"

\* C12: once the semaphore exists, free permits plus active tasks equal N in
\* every reachable state, and when every task has left resolution (returned,
\* raised or cancelled) the free permits are N again.
C12_PermitsConserved ==
  SemaphoreMade =>
    /\ sem + Cardinality(Active) = concurrency
    /\ (\A t \in Tasks : task[t].pc \in Ended) => sem = concurrency

\* C12 witness: one task raised, another was cancelled inside resolution, and
\* both permits are free again
C12_Witness ==
  /\ concurrency = 2
  /\ sem = 2
  /\ \E t \in Tasks : task[t].pc = "failed" /\ task[t].nReq = 1
  /\ \E t \in Tasks : task[t].pc = "cancelled" /\ task[t].nReq = 1

\* _resolver has left the gather: its teardown (the closes, the driver's stop)
\* is under way or over
TeardownStarted == bpc \in {"ctx_close", "browser_close", "pw_exit", "returned", "raised"}

\* the step makes task t issue a call on the session: a request, a new Page,
\* an operation on its Page, or add_cookies
IssuesCall(t) ==
  /\ task'[t] # task[t]
  /\ task'[t].pc \in {"get", "text", "new_page", "goto", "canonical", "og", "meta",
                      "settle", "close", "add_cookies"}

\* C13: the session outlives every task: once its teardown has started, no
\* task issues a request, creates or uses a Page, or adds cookies.
C13_SessionOutlivesTasks ==
  [][TeardownStarted => \A t \in Tasks : ~IssuesCall(t)]_vars

\* C14: an error of the network strategy (the GET, or the read of the body)
\* never leaves the task: no task fails with it, and the task that caught it
\* is at the start of its first page attempt, with no exception pending.
C14_NetworkErrorsCaught ==
  \A t \in Tasks :
    /\ task[t].exc \notin {"get", "text"}
    /\ task[t].caught # "" =>
         /\ task[t].pc = "new_page"
         /\ task[t].attempt = 1
         /\ task[t].nPages = 0
         /\ task[t].exc = ""
         /\ bexc = "task" => \E o \in Tasks : o # t /\ task[o].pc = "failed"

\* C14 witness: one task caught an error of its GET, another an error of the
\* read of the body, and both go on with the first page attempt
C14_Witness ==
  /\ \E t \in Tasks : task[t].caught = "get" /\ task[t].pc = "new_page"
  /\ \E t \in Tasks : task[t].caught = "text" /\ task[t].pc = "new_page"

\* C15: a failure of add_cookies is swallowed: the batch call never ends
\* raising with a task that failed on it.
C15_ConsentFailureSwallowed ==
  \A t \in Tasks :
    (task[t].pc = "failed" /\ task[t].exc = "add_cookies") => bpc # "raised"

\* the step returns null from task t after its second page attempt
ReturnsNullWhenExhausted(t) ==
  (/\ task[t].pc = "close"
   /\ task[t].attempt = 2
   /\ task[t].exc = ""
   /\ ~Final(task[t].ret)
   /\ task'[t] # task[t]
   /\ task'[t].pc # "cancelled")
    => (task'[t].pc = "done" /\ task'[t].result = None)

\* C16: a task that returned null has run the whole chain: its link holds no
\* directly decodable URL, it issued its request, made two page attempts and
\* applied the cookies once; and a second page attempt that ends without a
\* final candidate makes the task return null.
C16_NullMeansExhausted ==
  /\ [](\A t \in Tasks :
          (task[t].pc = "done" /\ task[t].result = None) =>
            /\ ~Truthy(_try_decode_direct(urls[t]))
            /\ task[t].nReq = 1
            /\ task[t].nPages = 2
            /\ task[t].nCookie = 1)
  /\ [][\A t \in Tasks : ReturnsNullWhenExhausted(t)]_vars

\* C16 witness: a task returned null after its request, two page attempts and
\* one cookie application, while another returned a URL
C16_Witness ==
  /\ \E t \in Tasks :
       /\ task[t].pc = "done" /\ task[t].result = None
       /\ task[t].nReq = 1 /\ task[t].nPages = 2 /\ task[t].nCookie = 1
  /\ \E t \in Tasks : task[t].pc = "done" /\ task[t].result = ElMundoB

\* the step makes task t call add_cookies only from the end of a first page
\* attempt that completed with no final candidate
CookiesOnlyAfterFirstAttempt(t) ==
  task'[t].nCookie > task[t].nCookie =>
    /\ task[t].pc = "close"
    /\ task[t].attempt = 1
    /\ task[t].nPages = 1
    /\ task[t].exc = ""
    /\ ~Final(task[t].ret)

\* the step starts task t's second page attempt only when its add_cookies
\* call has ended
SecondAttemptAfterCookies(t) ==
  (task'[t].attempt = 2 /\ task[t].attempt # 2) =>
    /\ task[t].pc = "add_cookies"
    /\ task[t].nCookie = 1
    /\ task[t].pending \subseteq jar'

\* C19: a task calls add_cookies at most once and makes at most two page
\* attempts; it calls add_cookies only when its first page attempt completed
\* with no final candidate, and starts the second attempt only when that call
\* has put the cookies in the jar.
C19_ConsentRetryOnce ==
  /\ [](\A t \in Tasks :
          /\ task[t].nCookie <= 1
          /\ task[t].nPages <= 2
          /\ task[t].nPages = 2 => task[t].nCookie = 1
          /\ task[t].attempt = 2 => (task[t].nCookie = 1 /\ jar # {}))
  /\ [][\A t \in Tasks : CookiesOnlyAfterFirstAttempt(t) /\ SecondAttemptAfterCookies(t)]_vars

\* C19 witness: a task returned the URL its second page attempt found, after
\* one cookie application
C19_Witness ==
  \E t \in Tasks :
    /\ task[t].pc = "done"
    /\ task[t].result = ElMundoB
    /\ task[t].nPages = 2
    /\ task[t].nCookie = 1
    /\ jar # {}

\* task t's strategies have run in order: the request only when the direct
\* decode gave nothing, a Page only after the request has ended, the cookies
\* only after a first Page, a second Page only after the cookies
StrategyOrder(t) ==
  /\ task[t].nReq = 1 => ~Truthy(_try_decode_direct(urls[t]))
  /\ task[t].pc \in {"get", "text"} => (task[t].nPages = 0 /\ task[t].nCookie = 0)
  /\ task[t].nPages >= 1 => task[t].nReq = 1
  /\ task[t].nCookie >= 1 => task[t].nPages >= 1
  /\ task[t].nPages >= 2 => task[t].nCookie >= 1

\* task t's chain stopped on a final candidate, or exhausted
StoppedOnFinal(t) ==
  task[t].pc = "done" =>
    \/ Final(task[t].result)
    \/ task[t].result = None /\ task[t].nPages = 2

\* C20: in every task the strategies run in the order direct decode, request,
\* page attempt, cookies and page attempt, no Page exists before the request
\* has ended, and the chain stops at the first strategy whose candidate is
\* final: a returned result is a final candidate, or null after the whole chain.
C20_OrderedStopAtFirstFinal ==
  \A t \in Tasks : StrategyOrder(t) /\ StoppedOnFinal(t)

\* pick_backend_name was called in auto mode
AutoMode == pick.backend = <<"auto">> \/ (pick.backend = None /\ pick.environ = None)

\* the server base_url names accepts connections
BaseUrlReachable ==
  \/ pick.base_url = DEFAULT_LMSTUDIO_URL /\ <<"127.0.0.1", 1234>> \in pick.listening
  \/ pick.base_url = CustomUrl /\ <<"localhost", 8000>> \in pick.listening

\* the priority of pick_backend_name's docstring
DocumentedChoice ==
  IF BaseUrlReachable THEN <<"openai_compat">>
  ELSE IF <<"127.0.0.1", 1234>> \in pick.listening THEN <<"openai_compat">>
  ELSE IF <<"127.0.0.1", 11434>> \in pick.listening THEN <<"ollama">>
  ELSE <<"template">>

\* C17: in auto mode pick_backend_name returns what the documented priority
\* gives, for every base_url and every state of the base_url's, LM Studio's
\* and Ollama's ports.
C17_DocumentedPriority ==
  (pick.pc = "returned" /\ AutoMode) => pick.ret = DocumentedChoice

\* the records of generate_episode's input file
InputItems == _iter_jsonl(episode.input)

\* the lines generate_episode added to the output file
Produced == From(episode.output, Len(episode.old) + 1)

MissingField(it) ==
  ~Truthy(Get(it, "resolved_url")) \/ ~Truthy(Strip(Get(it, "summary")))

\* line i of the produced lines is input record i's: its title and position,
\* and an empty script with an error when the record lacks a field
LineOfItem(i) ==
  LET line == Produced[i]
      it   == InputItems[i]
  IN  /\ line.kind = "json"
      /\ line.obj.title = it.title
      /\ line.obj.segment_index = i - 1
      /\ MissingField(it) => (line.obj.script = None /\ line.obj.errors # None)

Scripted ==
  IF episode.max_items > 0 /\ episode.max_items < Len(InputItems)
    THEN episode.max_items
    ELSE Len(InputItems)

BeforePort(hostp, colon) == IF colon = 0 THEN hostp ELSE Upto(hostp, colon - 1)

\* the host a URL names: its netloc without userinfo and port, in lower case
UrlHost(u) ==
  Lower(BeforePort(DropUserinfo(urlparse(u).netloc),
                   Find(DropUserinfo(urlparse(u).netloc), <<":">>)))

\* u is an article link on the aggregator's primary host
ArticleLink(u) ==
  /\ UrlHost(u) = <<"news", ".", "google", ".", "com">>
  /\ Contains(urlparse(u).path, <<"/", "rss", "/", "articles", "/">>)

\* the parsed URL o carries the configured locale as query parameters and
\* keeps the path and the query parameter of the parsed URL a
LocaleAdded(a, o) ==
  /\ QsFirst(o.query, <<"hl">>) = G_HL
  /\ QsFirst(o.query, <<"gl">>) = G_GL
  /\ QsFirst(o.query, <<"ceid">>) = G_CEID
  /\ o.scheme = a.scheme
  /\ o.netloc = a.netloc
  /\ o.path = a.path
  /\ QsFirst(o.query, <<"oc">>) = QsFirst(a.query, <<"oc">>)

\* C21: _maybe_add_locale gives an article link on news.google.com, with or
\* without a query string, the query parameters hl, gl and ceid with the
\* configured values and keeps its path and query parameters; every other
\* URL comes back unchanged
C21_LocaleAsQueryParameters ==
  (urlcall.pc = "returned" /\ urlcall.fn = "_maybe_add_locale") =>
    IF ArticleLink(urlcall.arg)
      THEN LocaleAdded(urlparse(urlcall.arg), urlparse(urlcall.out))
      ELSE urlcall.out = urlcall.arg

\* h is google.com or a dot-separated subdomain of it
GoogleHost(h) ==
  \/ h = <<"google", ".", "com">>
  \/ EndsWith(h, <<".", "google", ".", "com">>)

\* C23: _looks_google rejects every URL whose host is news.google.com,
\* consent.google.com, google.com or a subdomain of google.com, whatever its
\* scheme, port, userinfo, letter case, path and query
C23_GoogleHostsRejected ==
  (urlcall.pc = "returned" /\ urlcall.fn = "_looks_google"
     /\ GoogleHost(UrlHost(urlcall.arg)))
    => urlcall.google

\* C28: _looks_google rejects only aggregator hosts: a URL it rejects has the
\* host google.com or a dot-separated subdomain of it, so a publisher host
\* that merely ends with the same characters is accepted
C28_OnlyGoogleHostsRejected ==
  (urlcall.pc = "returned" /\ urlcall.fn = "_looks_google" /\ urlcall.google)
    => GoogleHost(UrlHost(urlcall.arg))


\* ---- the page attempt (Spec)

\* task t leaves the probe at position pos for the next probe nxt, or leaves
\* the attempt returning a candidate the classifier accepts
ProbeStep(t, pos, nxt) ==
  task[t].pc = pos =>
    /\ task'[t].pc \in {pos, nxt, "close", "cancelled"}
    /\ task'[t].pc = "close" => (task'[t].exc = "" /\ Final(task'[t].ret))

\* task t waits for network settlement only after the three probes, and the
\* wait ends by returning the page's URL when it is accepted, null otherwise
SettleStep(t) ==
  /\ (task'[t].pc = "settle" /\ task[t].pc # "settle") => task[t].pc = "meta"
  /\ task[t].pc = "settle" =>
       /\ task'[t].pc \in {"settle", "close", "cancelled"}
       /\ task'[t].pc = "close" =>
            /\ task'[t].exc = ""
            /\ Final(task'[t].ret) \/ task'[t].ret = None

\* C22: a page attempt probes canonical, og:url and the meta refresh target in
\* this order and returns the first one the classifier accepts; only when none
\* is accepted does it wait for settlement, and then it returns the page's
\* current URL if the classifier accepts it, null otherwise
C22_ProbesInOrder ==
  [][\A t \in Tasks :
       /\ ProbeStep(t, "canonical", "og")
       /\ ProbeStep(t, "og", "meta")
       /\ ProbeStep(t, "meta", "settle")
       /\ SettleStep(t)]_vars


\* ---- Page ownership (Spec)

\* the tasks holding an open Page
OpenPages == {t \in Tasks : task[t].page}

\* the positions of _page_attempt between new_page's return and page.close()
PagePositions == {"goto", "canonical", "og", "meta", "settle", "close"}

\* task t's Page lives inside t's own page attempt, t holds no Page when it
\* asks for a new one, and t is admitted while it holds one
OwnPage(t) ==
  /\ task[t].page => (task[t].pc \in PagePositions /\ t \in Active)
  /\ task[t].pc = "new_page" => ~task[t].page
  /\ task[t].pc \in PagePositions => task[t].attempt \in {1, 2}

\* a step in which a task with an open Page moves on inside its page attempt
\* changes no other task
OnlyOwnerMoves ==
  \A t \in Tasks :
    (task[t].page /\ task'[t].pc \in PagePositions /\ task'[t] # task[t])
      => \A o \in Tasks \ {t} : task'[o] = task[o]

\* C25: each Page is used only by the task that created it, each task holds
\* at most one open Page, only tasks admitted by the semaphore hold one, and
\* the open Pages never exceed the concurrency limit N
C25_PagesOwnedAndBounded ==
  /\ [](/\ \A t \in Tasks : OwnPage(t)
        /\ Cardinality(OpenPages) <= Cardinality(Active)
        /\ concurrency >= 0 => Cardinality(OpenPages) <= concurrency)
  /\ [][OnlyOwnerMoves]_vars

\* C25 witness: with N = 1 one task is in its second page attempt with its
\* Page open while the other task waits for the permit
C25_Witness ==
  /\ concurrency = 1
  /\ Len(urls) = 2
  /\ \E t \in Tasks :
       /\ task[t].page
       /\ task[t].attempt = 2
       /\ task[t].nPages = 2
       /\ \E o \in Tasks \ {t} : task[o].pc = "waiting"


\* ---- the output file (Spec)

\* every task of the batch has returned and _resolver has returned
BatchSucceeded == bpc = "returned" /\ \A t \in Tasks : task[t].pc = "done"

\* the output file is created or its contents change in this step
OutputTouched ==
  /\ "out_path" \in DOMAIN files'
  /\ "out_path" \in DOMAIN files => files'["out_path"] # files["out_path"]

\* the output file is as it was before the call: absent, or the earlier output
OutputUntouched == "out_path" \in DOMAIN files => files["out_path"] = OldOutput

\* C29: resolve_links_from_jsonl creates or overwrites the output file only
\* after every task of the batch has finished successfully; when the input
\* file is missing (no browser launched) or the batch raises, the output file
\* is neither created nor modified
C29_AllOrNothing ==
  /\ [](jpc # "returned" => OutputUntouched)
  /\ []((jpc = "raised" /\ "jsonl_in" \notin DOMAIN files) => (session = "none" /\ pw = "off"))
  /\ [][OutputTouched => (BatchSucceeded /\ jpc' = "returned")]_vars

\* C29 witness: an earlier output file was overwritten after a batch of one
\* task succeeded
C29_Witness ==
  /\ jpc = "returned"
  /\ Len(urls) = 1
  /\ BatchSucceeded
  /\ files["out_path"] # OldOutput
  /\ files["out_path"][1].obj.link = urls[1]

\* C29 witness: the batch raised and the earlier output file is as it was
C29_WitnessRaised ==
  /\ jpc = "raised"
  /\ bpc = "raised"
  /\ "out_path" \in DOMAIN files
  /\ files["out_path"] = OldOutput


\* ---- forward progress (FairSpec)

\* resolve_links_from_jsonl has returned or raised
CallEnded == jpc \in {"returned", "raised"}

\* task t has been admitted by the semaphore
Admitted(t) == task[t].pc \notin {"unborn", "waiting", "cancelled"} \/ task[t].nReq > 0

\* C30: for every limit the orchestrator accepts without raising, N = 0
\* included, a non-empty batch terminates: the call eventually returns or raises
C30_TerminatesForAcceptedLimit == <>CallEnded


\* every task that waits for a permit is eventually admitted
WaitingAdmitted ==
  \A t \in 1..MaxBatch : (t \in Tasks /\ task[t].pc = "waiting") ~> (t \in Tasks /\ Admitted(t))

\* every task asyncio.gather has created eventually finishes
TasksFinish ==
  \A t \in 1..MaxBatch :
    (t \in Tasks /\ task[t].pc # "unborn") ~> (t \in Tasks /\ task[t].pc \in Ended)

\* C26: with N >= 1, when every awaited operation completes or times out and
\* scheduling is fair, every waiting task is eventually admitted, every task
\* eventually finishes and the call eventually returns or raises
C26_ForwardProgress ==
  concurrency >= 1 => (WaitingAdmitted /\ TasksFinish /\ <>CallEnded)


\* ---- summarize.pipeline.run (SpecSummarize)

\* out is a processed form of the input record it: what _process_item makes
\* of it for some scraped text
ProcessedFormOf(out, it) ==
  \E text \in Texts : out = _process_item(it, text, summ.max_sentences, summ.model_name)

\* C27: run writes one output record per input record in input order, and
\* output record i is the processed form of input record i, with all of
\* record i's own fields, whatever the threads' completion order and also
\* when two records share a resolved_url / link or have neither
C27_OutputIsOwnProcessedForm ==
  summ.pc = "returned" =>
    /\ summ.written
    /\ Len(summ.output) = Len(summ.its)
    /\ \A i \in 1..Len(summ.its) :
         /\ \A f \in DOMAIN summ.its[i] :
              f \in DOMAIN summ.output[i] /\ summ.output[i][f] = summ.its[i][f]
         /\ ProcessedFormOf(summ.output[i], summ.its[i])


\* ---- independence of the tasks (Spec)

\* task t has a request or a navigation in flight on the shared context
InRequestOrNavigation(t) == task[t].pc \in {"get", "goto"}

\* C24: tasks are independent: what task A observes of the session during
\* its requests and navigations, the cookie jar included, does not depend on
\* another task's candidates having been rejected: a task that has applied no
\* cookies itself sees the jar as the session started it, empty
C24_TasksIndependent ==
  \A t \in Tasks :
    (InRequestOrNavigation(t) /\ task[t].nCookie = 0) => jar = {}

=============================================================================
